---- MODULE Spec2Model ----
(***************************************************************************)
(* Model of the DEEP+ API service (src/app.py): the project upsert /       *)
(* delete handlers, the project-file handlers (upload, import from URL,    *)
(* list, delete) with the Drive / local storage switch, the Drive probe    *)
(* with its module-level state, and the database connection pool.          *)
(*                                                                         *)
(* Each request is handled by one worker.  A handler is cut into steps at  *)
(* its I/O boundaries (a database statement with its commit, the Drive     *)
(* probe, a Drive call, a disk write, the outbound fetch); workers         *)
(* interleave between steps.  Every handler commits right after its single *)
(* write statement, so statement + commit is one step: under READ          *)
(* COMMITTED nobody sees the write before the commit, and row locks make   *)
(* other writers of the row wait for it.                                   *)
(***************************************************************************)
EXTENDS Integers, FiniteSets, Sequences, TLC

\* ------------------------------------------------------------------ bounds
\* Highest id the projects id sequence hands out in a run.
MaxProjectId == 2
\* Highest id the project_files id sequence hands out in a run.
MaxFileId == 2
\* Highest number of objects (Drive files, uuid4-named local files) stored in a run.
MaxStored == 2

\* Highest number of database connections open at once in a run.
MaxOpen == 7
\* Highest id the clients sequence hands out in a run.
MaxClientId == 3

\* SimpleConnectionPool(minconn=1, maxconn=5, dsn=DATABASE_URL)
minconn == 1
maxconn == 5

\* ------------------------------------------------------------- value sets
Workers == {"w1", "w2"}
Numbers == {"P1", "P2"}
\* Python None / SQL NULL in a text column or an optional API field.
None == "None"
Vals == {"a", "b"}
\* Client names a request can carry.
ClientNames == {"acme", "bolt"}
\* No row / NULL in an integer position (ids start at 1).
NoId == 0

\* The API fields the upsert copies, field_map's keys (the model keeps the
\* two compatibility fields; the other fifteen are handled by the same loop).
field_map == {"name", "status"}
\* The request bodies whose fields are None or drawn from V.
Payloads(V) == [field_map -> V \cup {None}]

ImageMime == "image/png"
OtherMime == "application/pdf"
OctetStream == "application/octet-stream"
\* The file name of the requests (its extension is known to mimetypes).
Filename == "a.png"

VARIABLES
    projects,        \* table projects: set of rows [id, number, cols]
    projects_seq,    \* next value of projects.id's sequence
    name_not_null,   \* schema: projects.project_name is declared NOT NULL
    clients,         \* table clients: set of rows [id, name]
    clients_seq,     \* next value of clients.id's sequence
    project_files,   \* table project_files: set of rows
    files_seq,       \* next value of project_files.id's sequence
    uploads,         \* local directory "uploads": set of file names present
    drive_files,     \* objects present in the Drive folder: set of Drive ids
    store_seq,       \* next fresh uuid4 / Drive id
    GOOGLE_AVAILABLE,\* _GOOGLE_AVAILABLE: the Drive libraries were imported
    GDRIVE_ENV,      \* GDRIVE_FOLDER_ID and GOOGLE_APPLICATION_CREDENTIALS are set
    drive_svc,       \* _drive_svc holds a Drive service (it starts as None)
    last_drive_probe,\* _last_drive_probe: (ok, reason) of the last probe
    app,             \* the process: "starting", "running" or "stopped"
    DATABASE_URL,    \* DATABASE_URL is set
    POOL,            \* _POOL: "none" (None), "active" or "closed" (after closeall)
    pool_free,       \* number of idle connections in the pool (len(_pool))
    pool_used,       \* number of connections checked out of it (len(_used))
    direct_open,     \* number of open connections made by db() without a pool
    elsewhere,       \* pooled connections held by requests of further threads
    pc,              \* per worker: position in its handler, "idle" outside
    req,             \* per worker: the request being handled
    loc,             \* per worker: the handler's local variables
    result,          \* per worker: the response fixed by its return statement
    prev_call        \* history: the upsert running alone, or the last that did

vars == <<projects, projects_seq, name_not_null, clients, clients_seq,
          project_files, files_seq,
          uploads, drive_files, store_seq, GOOGLE_AVAILABLE, GDRIVE_ENV,
          drive_svc, last_drive_probe, app, DATABASE_URL, POOL, pool_free,
          pool_used, direct_open, elsewhere, pc, req, loc, result, prev_call>>

client_vars == <<clients, clients_seq>>
db_vars == <<projects, projects_seq, name_not_null, client_vars>>
catalog_vars == <<project_files, files_seq, uploads, drive_files, store_seq>>
drive_vars == <<GOOGLE_AVAILABLE, GDRIVE_ENV, drive_svc, last_drive_probe>>
file_vars == <<catalog_vars, drive_vars>>
pool_vars == <<app, DATABASE_URL, POOL, pool_free, pool_used, direct_open,
               elsewhere>>

\* ------------------------------------------------------------ local state
NoReq == [op |-> "none"]
\* A response: HTTP status, the id it carries, its error / detail text, and
\* the file descriptors it lists.
Resp(status, id, detail, items) ==
    [status |-> status, id |-> id, detail |-> detail, items |-> items]
NoResult == Resp(0, NoId, None, {})
NoData == [c \in field_map |-> None]
NoCall ==
    [stage |-> "none", number |-> None, data |-> NoData, id |-> NoId,
     second |-> NoId]

\* pid: the project id looked up; exc: the exception on its way to the
\* except clause; mode: what storage_mode() returned; mime: the content type
\* worked out; rows: the rows selected; drive_id / local_path: where the
\* handler stored the bytes (attach) or the selected row's tag (delete);
\* fid: the id of the inserted row; issued: the Drive delete call was made;
\* removed: os.remove was called; probe: (ok, reason) as _probe_drive()
\* returned it to the open routes; env and calls: what that probe met
\* outside the process and the number of Drive calls it made; conn: the
\* connection db() returned ("pooled" or "direct"; None: no connection, or
\* handed back already).
NoEnv == [creds_exists |-> FALSE, creds_valid |-> FALSE, reach |-> FALSE]
NoLoc ==
    [pid |-> NoId, exc |-> None, mode |-> None, mime |-> None, rows |-> {},
     drive_id |-> NoId, local_path |-> NoId, fid |-> NoId,
     issued |-> FALSE, removed |-> FALSE,
     probe |-> <<FALSE, None>>, env |-> NoEnv, calls |-> 0, conn |-> None]

Idle(w) == pc[w] = "idle"

\* ------------------------------------------------------------------ tables
ProjectRows(number) == {r \in projects : r.number = number}

\* Mutant: the lookup compares against a key that never matches.
SelectProjectIdNoMatch(number) == NoId

\* select id from projects where project_number=%s ; fetchone
SelectProjectId(number) ==
    IF ProjectRows(number) = {} THEN NoId
    ELSE (CHOOSE r \in ProjectRows(number) : TRUE).id

\* The columns of the INSERT statement: every field as given, None included.
InsertCols(data) == [c \in field_map |-> data[c]]

\* Mutant: the insert is never committed, the row is lost.
InsertedNothing(id, number, data) == {}

\* The row the INSERT ... returning id adds, made durable by conn.commit().
InsertedRows(id, number, data) ==
    {[id |-> id, number |-> number, cols |-> InsertCols(data)]}

\* Mutant: the UPDATE sets every column, None included.
SetAllCols(old, data) == [c \in field_map |-> data[c]]

\* The UPDATE built by the loop over field_map: a column is set only when the
\* incoming value is not None; the others keep the row's value.
UpdateCols(old, data) ==
    [c \in field_map |-> IF data[c] # None THEN data[c] ELSE old[c]]

\* Mutant: the loop collects every column, None or not.
SetsEverything(data) == field_map

\* sets: the columns the loop collected.
Sets(data) == {c \in field_map : data[c] # None}

\* --------------------------------------------------------- connections
\* The connections are counted: the pool's idle ones, its checked-out
\* ones, and the ones opened outside it.
AllOpen == pool_free + pool_used + direct_open
CanOpen == AllOpen < MaxOpen

\* The idle list after _POOL.putconn(conn): the connection goes back to it
\* while it holds fewer than minconn connections, else it is closed.
putconn(free) == IF free < minconn THEN free + 1 ELSE free

\* close_conn(conn): nothing for None; with a pool, putconn; without one
\* (or when putconn raises), conn.close().
close_conn(c) ==
    IF c = None
    THEN UNCHANGED <<pool_free, pool_used, direct_open>>
    ELSE IF POOL = "active"
    THEN /\ pool_free' = putconn(pool_free)
         /\ pool_used' = pool_used - 1
         /\ UNCHANGED direct_open
    ELSE /\ direct_open' = direct_open - 1
         /\ UNCHANGED <<pool_free, pool_used>>

\* ------------------------------------------------------- handler skeleton
\* A request arrives at an idle worker.
\* History (prev_call): a call runs alone when no other worker is in a
\* handler from its arrival to its return.  An arrival while the others are
\* idle opens such a call, and notes in "second" the id the call before it
\* returned if that was the same upsert, run alone, immediately before; any
\* other arrival closes the history.
Arrive(w, r, first) ==
    /\ Idle(w)
    /\ req' = [req EXCEPT ![w] = r]
    /\ pc' = [pc EXCEPT ![w] = first]
    /\ loc' = [loc EXCEPT ![w] = NoLoc]
    /\ result' = [result EXCEPT ![w] = NoResult]
    /\ prev_call' =
           IF r.op = "upsert" /\ \A u \in Workers \ {w} : Idle(u)
           THEN [stage |-> "running", number |-> r.number, data |-> r.data,
                 id |-> NoId,
                 second |-> IF /\ prev_call.stage = "returned"
                               /\ prev_call.number = r.number
                               /\ prev_call.data = r.data
                            THEN prev_call.id ELSE NoId]
           ELSE NoCall

\* The handler goes on to its next statement with new locals.
Goto(w, next, l) ==
    /\ pc' = [pc EXCEPT ![w] = next]
    /\ loc' = [loc EXCEPT ![w] = l]
    /\ UNCHANGED <<req, result>>

\* A statement raises: control passes to the handler's except clause (or,
\* without one, straight to finally).
Raise(w, handler, e) == Goto(w, handler, [loc[w] EXCEPT !.exc = e])

\* A return statement (or an unhandled exception): the response is fixed and
\* the finally clause runs next.
Return(w, res) ==
    /\ pc' = [pc EXCEPT ![w] = "finally"]
    /\ result' = [result EXCEPT ![w] = res]
    /\ UNCHANGED <<req, loc>>

\* finally: cur.close(); close_conn(conn).  The response leaves and the
\* worker is free for the next request.
Finally(w) ==
    /\ pc[w] = "finally"
    /\ close_conn(loc[w].conn)
    /\ pc' = [pc EXCEPT ![w] = "idle"]
    /\ req' = [req EXCEPT ![w] = NoReq]
    /\ loc' = [loc EXCEPT ![w] = NoLoc]
    /\ result' = [result EXCEPT ![w] = NoResult]
    /\ UNCHANGED <<db_vars, file_vars, app, DATABASE_URL, POOL, elsewhere,
                   prev_call>>

\* ------------------------------------------------- upsert_project_by_number
StartUpsert(w, V) ==
    /\ \E n \in Numbers, d \in Payloads(V) :
           Arrive(w, [op |-> "upsert", number |-> n, data |-> d], "up_select")
    /\ UNCHANGED <<pool_vars, db_vars, file_vars>>

\* cur.execute("select id from projects where project_number=%s"); row = fetchone()
UpsertSelect(w) ==
    /\ pc[w] = "up_select"
    /\ \/ Goto(w, IF SelectProjectId(req[w].number) # NoId
                  THEN "up_update" ELSE "up_insert",
               [loc[w] EXCEPT !.pid = SelectProjectId(req[w].number)])
       \/ Raise(w, "up_except", "db_error")
    /\ UNCHANGED <<pool_vars, db_vars, file_vars, prev_call>>

\* History: the upsert that ran alone returns success with this id.
Remember(w, id) ==
    IF prev_call.stage = "running"
    THEN [prev_call EXCEPT !.stage = "returned", !.id = id]
    ELSE NoCall

\* History: the upsert that ran alone fails.
Forget(w) ==
    IF prev_call.stage = "running"
    THEN [prev_call EXCEPT !.stage = "failed"]
    ELSE NoCall

\* Mutant: the UPDATE has no where clause and writes every row.
UpsertUpdateAllRows(w) ==
    /\ pc[w] = "up_update"
    /\ projects' =
           IF Sets(req[w].data) = {} THEN projects
           ELSE {[r EXCEPT !.cols = UpdateCols(r.cols, req[w].data)] :
                     r \in projects}
    /\ Return(w, Resp(200, loc[w].pid, None, {}))
    /\ prev_call' = Remember(w, loc[w].pid)
    /\ UNCHANGED <<pool_vars, projects_seq, name_not_null, client_vars, file_vars>>

\* if row: build sets; if sets: update ... where id=%s; commit; return ok
UpsertUpdate(w) ==
    /\ pc[w] = "up_update"
    /\ \/ /\ projects' =
                 IF Sets(req[w].data) = {} THEN projects
                 ELSE {IF r.id = loc[w].pid
                       THEN [r EXCEPT !.cols = UpdateCols(r.cols, req[w].data)]
                       ELSE r : r \in projects}
          /\ Return(w, Resp(200, loc[w].pid, None, {}))
          /\ prev_call' = Remember(w, loc[w].pid)
       \/ /\ Sets(req[w].data) # {}
          /\ Raise(w, "up_except", "db_error")
          /\ UNCHANGED <<projects, prev_call>>
    /\ UNCHANGED <<pool_vars, projects_seq, name_not_null, client_vars, file_vars>>

\* What the INSERT statement meets in the table: the NOT NULL check comes
\* before the unique index is touched.
InsertOutcome(number, data) ==
    IF name_not_null /\ data["name"] = None THEN "not_null_violation"
    ELSE IF ProjectRows(number) # {} THEN "unique_violation"
    ELSE "inserted"

\* insert into projects (...) values (...) returning id; commit; return ok
\* The id sequence advances on every attempt that reaches the table.
UpsertInsert(w) ==
    /\ pc[w] = "up_insert"
    /\ \/ /\ projects_seq <= MaxProjectId
          /\ projects_seq' = projects_seq + 1
          /\ IF InsertOutcome(req[w].number, req[w].data) = "inserted"
             THEN /\ projects' = projects \cup
                        InsertedRows(projects_seq, req[w].number, req[w].data)
                  /\ Return(w, Resp(200, projects_seq, None, {}))
                  /\ prev_call' = Remember(w, projects_seq)
             ELSE /\ Raise(w, "up_except",
                           InsertOutcome(req[w].number, req[w].data))
                  /\ UNCHANGED <<projects, prev_call>>
       \/ /\ Raise(w, "up_except", "db_error")
          /\ UNCHANGED <<projects, projects_seq, prev_call>>
    /\ UNCHANGED <<pool_vars, name_not_null, client_vars, file_vars>>

\* except Exception: conn.rollback(); return 500 upsert_failed
UpsertExcept(w) ==
    /\ pc[w] = "up_except"
    /\ Return(w, Resp(500, NoId, loc[w].exc, {}))
    /\ prev_call' = Forget(w)
    /\ UNCHANGED <<pool_vars, db_vars, file_vars>>

\* ------------------------------------------------- delete_project_by_number
StartDeleteProject(w) ==
    /\ \E n \in Numbers :
           Arrive(w, [op |-> "delete_project", number |-> n], "dp_delete")
    /\ UNCHANGED <<pool_vars, db_vars, file_vars>>

\* Mutant: the handler reads row[0] of a delete that returned no row.
DeleteProjectNoCheck(w) ==
    /\ pc[w] = "dp_delete"
    /\ projects' = projects \ ProjectRows(req[w].number)
    /\ Return(w, IF ProjectRows(req[w].number) = {}
                 THEN Resp(500, NoId, "TypeError", {})
                 ELSE Resp(200, NoId, None, {}))
    /\ UNCHANGED <<pool_vars, projects_seq, name_not_null, client_vars, file_vars,
                   prev_call>>

\* Schema of project_files (the table's definition is not part of the
\* source): project_id carries no foreign key action, so the rows of a
\* deleted project stay in the table, referring to an id that is gone.
project_files_after_delete(files, pids) == files

\* Mutant: project_files.project_id is declared ON DELETE CASCADE.
DeleteProjectCascade(w) ==
    /\ pc[w] = "dp_delete"
    /\ \/ /\ projects' = projects \ ProjectRows(req[w].number)
          /\ project_files' =
                 {f \in project_files :
                     f.project_id \notin
                         {r.id : r \in ProjectRows(req[w].number)}}
          /\ Return(w, IF ProjectRows(req[w].number) = {}
                       THEN Resp(404, NoId, "not_found", {})
                       ELSE Resp(200, NoId, None, {}))
       \/ /\ Return(w, Resp(500, NoId, "unhandled", {}))
          /\ UNCHANGED <<projects, project_files>>
    /\ UNCHANGED <<pool_vars, projects_seq, name_not_null, client_vars,
                   files_seq, uploads, drive_files, store_seq, drive_vars,
                   prev_call>>

\* delete from projects where project_number=%s returning id; commit
\* (no except clause: a database error leaves the handler unhandled)
DeleteProject(w) ==
    /\ pc[w] = "dp_delete"
    /\ \/ /\ projects' = projects \ ProjectRows(req[w].number)
          /\ project_files' =
                 project_files_after_delete(project_files,
                     {r.id : r \in ProjectRows(req[w].number)})
          /\ Return(w, IF ProjectRows(req[w].number) = {}
                       THEN Resp(404, NoId, "not_found", {})
                       ELSE Resp(200, NoId, None, {}))
       \/ /\ Return(w, Resp(500, NoId, "unhandled", {}))
          /\ UNCHANGED <<projects, project_files>>
    /\ UNCHANGED <<pool_vars, projects_seq, name_not_null, client_vars,
                   files_seq, uploads, drive_files, store_seq, drive_vars,
                   prev_call>>

\* --------------------------------------------------- upsert_client_by_name
StartUpsertClient(w) ==
    /\ \E n \in ClientNames :
           Arrive(w, [op |-> "upsert_client", name |-> n], "uc_upsert")
    /\ UNCHANGED <<pool_vars, db_vars, file_vars>>

\* The rows of table clients with a name.
ClientRows(name) == {r \in clients : r.name = name}

\* Mutant: a plain insert into a table without a unique index on name.
UpsertClientPlainInsert(w) ==
    /\ pc[w] = "uc_upsert"
    /\ \/ /\ clients_seq <= MaxClientId
          /\ clients_seq' = clients_seq + 1
          /\ clients' = clients \cup
                 {[id |-> clients_seq, name |-> req[w].name]}
          /\ Return(w, Resp(200, clients_seq, None, {}))
       \/ /\ Raise(w, "uc_except", "db_error")
          /\ UNCHANGED client_vars
    /\ UNCHANGED <<pool_vars, projects, projects_seq, name_not_null,
                   file_vars, prev_call>>

\* insert into clients (name) values (%s) on conflict (name) do update set
\* name=excluded.name returning id; cid = fetchone()[0]; commit; return ok
\* The statement is one atomic step of the database: a concurrent insert of
\* the same name waits for the first and then takes the conflict branch,
\* which returns the id of the row that is there (ON CONFLICT (name) is
\* accepted only with a unique index on name).  The id's default is
\* evaluated before the conflict is seen, so every attempt takes an id.
UpsertClient(w) ==
    /\ pc[w] = "uc_upsert"
    /\ \/ /\ clients_seq <= MaxClientId
          /\ clients_seq' = clients_seq + 1
          /\ IF ClientRows(req[w].name) = {}
             THEN /\ clients' = clients \cup
                        {[id |-> clients_seq, name |-> req[w].name]}
                  /\ Return(w, Resp(200, clients_seq, None, {}))
             ELSE /\ clients' = clients
                  /\ Return(w, Resp(200,
                         (CHOOSE r \in ClientRows(req[w].name) : TRUE).id,
                         None, {}))
       \/ /\ Raise(w, "uc_except", "db_error")
          /\ UNCHANGED client_vars
    /\ UNCHANGED <<pool_vars, projects, projects_seq, name_not_null,
                   file_vars, prev_call>>

\* except Exception: conn.rollback(); return 500 client_upsert_failed
UpsertClientExcept(w) ==
    /\ pc[w] = "uc_except"
    /\ Return(w, Resp(500, NoId, loc[w].exc, {}))
    /\ UNCHANGED <<pool_vars, db_vars, file_vars, prev_call>>

\* ------------------------------------------- startup, db(), conn.cursor()
\* _startup(): _ensure_database_url(), then the pool with its minconn
\* connections; any exception (no DATABASE_URL, database unreachable) is
\* logged and leaves _POOL = None.
Startup ==
    /\ app = "starting"
    /\ app' = "running"
    /\ \/ /\ DATABASE_URL
          /\ POOL' = "active"
          /\ pool_free' = minconn
       \/ /\ POOL' = "none"
          /\ UNCHANGED pool_free
    /\ UNCHANGED <<db_vars, file_vars, DATABASE_URL, pool_used, direct_open,
                   elsewhere, pc, req, loc, result, prev_call>>

\* _shutdown(): if _POOL: _POOL.closeall(), once the requests are done.
Shutdown ==
    /\ app = "running"
    /\ \A w \in Workers : Idle(w)
    /\ elsewhere = 0
    /\ app' = "stopped"
    /\ IF POOL = "active"
       THEN POOL' = "closed" /\ pool_free' = 0 /\ pool_used' = 0
       ELSE UNCHANGED <<POOL, pool_free, pool_used>>
    /\ UNCHANGED <<db_vars, file_vars, DATABASE_URL, direct_open, elsewhere,
                   pc, req, loc, result, prev_call>>

\* The handlers below start at conn = db().
StartDeleteProjectDb(w) ==
    /\ app = "running"
    /\ \E n \in Numbers :
           Arrive(w, [op |-> "delete_project", number |-> n], "db")
    /\ UNCHANGED <<pool_vars, db_vars, file_vars>>

StartDebugDb(w) ==
    /\ app = "running"
    /\ Arrive(w, [op |-> "debug_db"], "db")
    /\ UNCHANGED <<pool_vars, db_vars, file_vars>>

\* An exception in db() or conn.cursor().  debug_db has both inside its
\* try and answers 500 from its except clause; the other handlers have
\* them before the try, so the exception leaves the handler without
\* running its finally clause.
Fails(w, e) ==
    /\ pc' = [pc EXCEPT ![w] =
                 IF req[w].op = "debug_db" THEN "finally" ELSE "escaped"]
    /\ loc' = [loc EXCEPT ![w].exc = e, ![w].conn = None]
    /\ result' = [result EXCEPT ![w] = Resp(500, NoId, e, {})]
    /\ UNCHANGED req

\* db() got connection c.
Connected(w, c) == Goto(w, "cursor", [loc[w] EXCEPT !.conn = c])

\* Mutant: db() always goes to the pool.
DbNoFallback(w) ==
    /\ pc[w] = "db"
    /\ IF POOL = "active" /\ pool_free > 0
       THEN /\ pool_free' = pool_free - 1
            /\ pool_used' = pool_used + 1
            /\ Connected(w, "pooled")
       ELSE /\ Fails(w, "AttributeError")
            /\ UNCHANGED <<pool_free, pool_used>>
    /\ UNCHANGED <<db_vars, file_vars, app, DATABASE_URL, POOL, direct_open,
                   elsewhere, prev_call>>

\* db(): without a pool, _ensure_database_url() and psycopg2.connect;
\* with one, _POOL.getconn(): an idle connection if there is one, else
\* PoolError when len(_used) == maxconn, else a new connection (DbConnect).
Db(w) ==
    /\ pc[w] = "db"
    /\ IF POOL # "active"
       THEN /\ \/ /\ ~DATABASE_URL
                   /\ Fails(w, "RuntimeError")
                   /\ UNCHANGED direct_open
                \/ /\ DATABASE_URL /\ CanOpen
                   /\ direct_open' = direct_open + 1
                   /\ Connected(w, "direct")
                \/ /\ DATABASE_URL
                   /\ Fails(w, "OperationalError")
                   /\ UNCHANGED direct_open
            /\ UNCHANGED <<pool_free, pool_used>>
       ELSE /\ IF pool_free > 0
               THEN /\ pool_free' = pool_free - 1
                    /\ pool_used' = pool_used + 1
                    /\ Connected(w, "pooled")
               ELSE /\ IF pool_used = maxconn
                       THEN Fails(w, "PoolError")
                       ELSE Goto(w, "db_connect", loc[w])
                    /\ UNCHANGED <<pool_free, pool_used>>
            /\ UNCHANGED direct_open
    /\ UNCHANGED <<db_vars, file_vars, app, DATABASE_URL, POOL, elsewhere,
                   prev_call>>

\* getconn()'s _connect(key): psycopg2.connect(dsn), then _used[key] = conn.
\* The pool is a SimpleConnectionPool, which takes no lock: other threads
\* run while this one connects.
DbConnect(w) ==
    /\ pc[w] = "db_connect"
    /\ \/ /\ CanOpen
          /\ pool_used' = pool_used + 1
          /\ Connected(w, "pooled")
       \/ /\ Fails(w, "OperationalError")
          /\ UNCHANGED pool_used
    /\ UNCHANGED <<db_vars, file_vars, app, DATABASE_URL, POOL, pool_free,
                   direct_open, elsewhere, prev_call>>

\* cur = conn.cursor().  On failure debug_db's except clause calls
\* close_conn(conn); the other handlers are left with the connection.
Cursor(w) ==
    /\ pc[w] = "cursor"
    /\ \/ /\ Goto(w, IF req[w].op = "debug_db" THEN "dd_execute"
                      ELSE "dp_delete", loc[w])
          /\ UNCHANGED <<pool_free, pool_used, direct_open>>
       \/ /\ Fails(w, "cursor_error")
          /\ IF req[w].op = "debug_db"
             THEN close_conn(loc[w].conn)
             ELSE UNCHANGED <<pool_free, pool_used, direct_open>>
    /\ UNCHANGED <<db_vars, file_vars, app, DATABASE_URL, POOL, elsewhere,
                   prev_call>>

\* The exception that left the handler is answered with 500 by the server;
\* the handler's locals are gone.
Escaped(w) ==
    /\ pc[w] = "escaped"
    /\ pc' = [pc EXCEPT ![w] = "idle"]
    /\ req' = [req EXCEPT ![w] = NoReq]
    /\ loc' = [loc EXCEPT ![w] = NoLoc]
    /\ result' = [result EXCEPT ![w] = NoResult]
    /\ UNCHANGED <<pool_vars, db_vars, file_vars, prev_call>>

\* debug_db: cur.execute("select version()"); cur.close(); close_conn(conn);
\* conn = None; return ok -- or except: close_conn(conn); return 500
DebugDbExecute(w) ==
    /\ pc[w] = "dd_execute"
    /\ close_conn(loc[w].conn)
    /\ pc' = [pc EXCEPT ![w] = "finally"]
    /\ \/ /\ loc' = [loc EXCEPT ![w].conn = None]
          /\ result' = [result EXCEPT ![w] = Resp(200, NoId, None, {})]
       \/ /\ loc' = [loc EXCEPT ![w].conn = None, ![w].exc = "db_error"]
          /\ result' = [result EXCEPT ![w] = Resp(500, NoId, "db_error", {})]
    /\ UNCHANGED <<db_vars, file_vars, app, DATABASE_URL, POOL, elsewhere,
                   req, prev_call>>

\* The requests of the server's further threads, as far as the pool sees
\* them: one takes a connection out of the pool ...
ElsewhereAcquire ==
    /\ app = "running" /\ POOL = "active"
    /\ IF pool_free > 0
       THEN /\ pool_free' = pool_free - 1
            /\ pool_used' = pool_used + 1
            /\ elsewhere' = elsewhere + 1
       ELSE /\ pool_used < maxconn
            /\ CanOpen
            /\ pool_used' = pool_used + 1
            /\ elsewhere' = elsewhere + 1
            /\ UNCHANGED pool_free
    /\ UNCHANGED <<db_vars, file_vars, app, DATABASE_URL, POOL, direct_open,
                   pc, req, loc, result, prev_call>>

\* ... and one hands its connection back in its finally clause.
ElsewhereRelease ==
    /\ elsewhere > 0
    /\ close_conn("pooled")
    /\ elsewhere' = elsewhere - 1
    /\ UNCHANGED <<db_vars, file_vars, app, DATABASE_URL, POOL,
                   pc, req, loc, result, prev_call>>

\* ------------------------------------------------------------ storage mode
\* Mutant: the configuration is looked at before the libraries.
drive_env_ready_cfg_first(libs, cfg, creds) ==
    IF ~cfg THEN <<FALSE, "missing_env">>
    ELSE IF ~libs THEN <<FALSE, "google_libs_unavailable">>
    ELSE IF ~creds THEN <<FALSE, "creds_file_missing">>
    ELSE <<TRUE, "env_ok">>

\* _drive_env_ready(): the first failing precondition gives the reason.
drive_env_ready(libs, cfg, creds) ==
    IF ~libs THEN <<FALSE, "google_libs_unavailable">>
    ELSE IF ~cfg THEN <<FALSE, "missing_env">>
    ELSE IF ~creds THEN <<FALSE, "creds_file_missing">>
    ELSE <<TRUE, "env_ok">>

\* _probe_drive(): the environment, then the try block (svc = _drive(),
\* one files().get on the folder); reach tells whether the block succeeds.
probe_drive(libs, cfg, creds, reach) ==
    IF ~drive_env_ready(libs, cfg, creds)[1]
    THEN drive_env_ready(libs, cfg, creds)
    ELSE IF reach THEN <<TRUE, "ok">>
    ELSE <<FALSE, "drive_probe_failed">>

\* storage_mode()
storage_mode(libs, cfg, creds, reach) ==
    IF probe_drive(libs, cfg, creds, reach)[1] THEN "drive" ELSE "local"

\* What a probe meets outside the process at the moment of the call: the
\* credentials file exists, it holds a key that loads, Drive answers the
\* call.  The libraries and the configuration are fixed when the process
\* starts; these three change out of band.
Envs == [creds_exists : BOOLEAN, creds_valid : BOOLEAN, reach : BOOLEAN]

\* _drive() returns a service: the cached one if _drive_svc is set, else the
\* one built from the credentials file (from_service_account_file raises on
\* a file that does not load).  A service that was built stays in _drive_svc.
drive(svc, e) == svc \/ e.creds_valid

\* _probe_drive() with _drive_svc = svc in environment e.
ProbeDrive(svc, e) ==
    probe_drive(GOOGLE_AVAILABLE, GDRIVE_ENV, e.creds_exists,
                drive(svc, e) /\ e.reach)

\* storage_mode() with _drive_svc = svc in environment e.
ModeIn(svc, e) ==
    storage_mode(GOOGLE_AVAILABLE, GDRIVE_ENV, e.creds_exists,
                 drive(svc, e) /\ e.reach)

\* The Drive calls the probe makes: the files().get, reached when the
\* environment is ready and _drive() returned a service.
ProbeCalls(svc, e) ==
    IF /\ drive_env_ready(GOOGLE_AVAILABLE, GDRIVE_ENV, e.creds_exists)[1]
       /\ drive(svc, e)
    THEN 1 ELSE 0

\* The globals _probe_drive() writes: _last_drive_probe, and _drive_svc
\* when the try block was reached and _drive() built a service.
ProbeGlobals(e) ==
    /\ last_drive_probe' = ProbeDrive(drive_svc, e)
    /\ drive_svc' =
           IF drive_env_ready(GOOGLE_AVAILABLE, GDRIVE_ENV, e.creds_exists)[1]
           THEN drive(drive_svc, e) ELSE drive_svc

\* _infer_mime(filename, fallback)
infer_mime(filename) ==
    IF filename = "a.png" THEN ImageMime ELSE OctetStream

\* content_type or the next source of it
OrElse(a, b) == IF a # None THEN a ELSE b

\* (mime or "").startswith("image/")
IsImage(mime) == mime = ImageMime

\* ------------------------------------------------------------------ links
Link(kind, ref) == [kind |-> kind, ref |-> ref]
NoLink == Link("none", NoId)
\* f"/projects/{number}/files/local/{fid}"
LocalRoute(fid) == Link("local_route", fid)
\* f"/uploads/{os.path.basename(local_path)}"
UploadsUrl(local_path) == Link("uploads", local_path)
\* Drive's webContentLink / webViewLink of a file
WebContentLink(drive_id) == Link("webContentLink", drive_id)
WebViewLink(drive_id) == Link("webViewLink", drive_id)

\* ----------------------------------------------------- project_files rows
FileRow(id, pid, mime, drive_id, local_path) ==
    [id |-> id, project_id |-> pid, filename |-> Filename,
     content_type |-> mime, drive_id |-> drive_id, local_path |-> local_path]

\* Mutant: the local insert passes None for the path as well.
LocalRowNoPath(id, pid, mime, local_path) ==
    FileRow(id, pid, mime, NoId, NoId)

\* values (pid, fname, mime, drive_id, None)
DriveRow(id, pid, mime, drive_id) == FileRow(id, pid, mime, drive_id, NoId)

\* values (pid, fname, mime, None, local_path)
LocalRow(id, pid, mime, local_path) == FileRow(id, pid, mime, NoId, local_path)

\* A descriptor of a response: the row's columns and the links built for it.
Item(row, storage, download, preview) ==
    [id |-> row.id, drive_id |-> row.drive_id, local_path |-> row.local_path,
     content_type |-> row.content_type, storage |-> storage,
     download |-> download, preview |-> preview]

\* Mutant: the project check lets every lookup result through.
NeverMissing(pid) == FALSE

\* if not pid: return 404 project_not_found
ProjectMissing(pid) == pid = NoId

\* ------------------------------ upload_project_file / import_file_from_url
StartUpload(w) ==
    /\ \E n \in Numbers, ct \in {None, OtherMime} :
           Arrive(w, [op |-> "upload", number |-> n, content_type |-> ct],
                  "at_lookup")
    /\ UNCHANGED <<pool_vars, db_vars, file_vars>>

StartImport(w) ==
    /\ \E n \in Numbers, ct \in {None, OtherMime} :
           Arrive(w, [op |-> "import", number |-> n, content_type |-> ct],
                  "at_lookup")
    /\ UNCHANGED <<pool_vars, db_vars, file_vars>>

\* pid = _get_project_id(cur, number); if not pid: return 404
\* Then the upload reads the file and works out fname and mime; the import
\* goes on to fetch the URL.
AttachLookup(w) ==
    /\ pc[w] = "at_lookup"
    /\ \/ /\ ProjectMissing(SelectProjectId(req[w].number))
          /\ Return(w, Resp(404, NoId, "project_not_found", {}))
       \/ /\ ~ProjectMissing(SelectProjectId(req[w].number))
          /\ Goto(w, IF req[w].op = "import" THEN "im_fetch" ELSE "at_probe",
                  [loc[w] EXCEPT
                     !.pid = SelectProjectId(req[w].number),
                     !.mime = OrElse(req[w].content_type, infer_mime(Filename))])
       \/ Raise(w, "at_except", "db_error")
    /\ UNCHANGED <<pool_vars, db_vars, file_vars, prev_call>>

\* Mutant: a failed fetch leaves what it had received in uploads.
ImportFetchKeepsPartial(w) ==
    /\ pc[w] = "im_fetch"
    /\ \/ /\ \E header \in {None, ImageMime, OtherMime} :
                 Goto(w, "at_probe",
                      [loc[w] EXCEPT
                         !.mime = OrElse(req[w].content_type,
                                         OrElse(header, infer_mime(Filename)))])
          /\ UNCHANGED <<uploads, store_seq>>
       \/ /\ store_seq <= MaxStored
          /\ store_seq' = store_seq + 1
          /\ uploads' = uploads \cup {store_seq}
          /\ Return(w, Resp(502, NoId, "import_failed", {}))
    /\ UNCHANGED <<pool_vars, db_vars, drive_vars, project_files,
                   files_seq, drive_files, prev_call>>

\* resp = sess.get(url, timeout=(6, 30)); resp.raise_for_status(); mime from
\* the body's content_type, the Content-Type header or the file name.
\* An HTTP error status returns 502 upstream_error; a RequestException
\* (no connection, timeout) is caught by the first except clause.
ImportFetch(w) ==
    /\ pc[w] = "im_fetch"
    /\ \/ \E header \in {None, ImageMime, OtherMime} :
              Goto(w, "at_probe",
                   [loc[w] EXCEPT
                      !.mime = OrElse(req[w].content_type,
                                      OrElse(header, infer_mime(Filename)))])
       \/ Return(w, Resp(502, NoId, "upstream_error", {}))
       \/ Return(w, Resp(502, NoId, "import_failed", {}))
    /\ UNCHANGED <<pool_vars, db_vars, file_vars, prev_call>>

\* storage_mode()
AttachProbe(w) ==
    /\ pc[w] = "at_probe"
    /\ \E e \in Envs :
           /\ Goto(w, "at_store", [loc[w] EXCEPT !.mode = ModeIn(drive_svc, e)])
           /\ ProbeGlobals(e)
    /\ UNCHANGED <<pool_vars, db_vars, catalog_vars, GOOGLE_AVAILABLE, GDRIVE_ENV,
                   prev_call>>

\* drive: meta = _drive_upload(fname, data, mime); drive_id = meta["id"]
\* (its _drive() returns the service the probe of this request left in
\* _drive_svc, which nothing resets)
\* local: local_path = uploads/{number}_{uuid4}{ext}; open(...).write(data)
\* Either can raise (Drive error, disk error).
AttachStore(w) ==
    /\ pc[w] = "at_store"
    /\ \/ /\ store_seq <= MaxStored
          /\ store_seq' = store_seq + 1
          /\ IF loc[w].mode = "drive"
             THEN /\ drive_files' = drive_files \cup {store_seq}
                  /\ Goto(w, "at_insert", [loc[w] EXCEPT !.drive_id = store_seq])
                  /\ UNCHANGED uploads
             ELSE /\ uploads' = uploads \cup {store_seq}
                  /\ Goto(w, "at_insert", [loc[w] EXCEPT !.local_path = store_seq])
                  /\ UNCHANGED drive_files
       \/ /\ Raise(w, "at_except",
                   IF loc[w].mode = "drive" THEN "drive_error" ELSE "io_error")
          /\ UNCHANGED <<uploads, drive_files, store_seq>>
    /\ UNCHANGED <<pool_vars, db_vars, drive_vars, project_files, files_seq, prev_call>>

\* The descriptor the attach returns.
\* drive: download = webContentLink, preview = webViewLink (the import
\* returns the view link as "view" and "preview" and no download key);
\* local: download = the local route (upload only), preview = /uploads/...
\* for an image.
AttachItem(op, row) ==
    IF row.drive_id # NoId
    THEN Item(row, "drive",
              IF op = "upload" THEN WebContentLink(row.drive_id) ELSE NoLink,
              WebViewLink(row.drive_id))
    ELSE Item(row, "local",
              IF op = "upload" THEN LocalRoute(row.id) ELSE NoLink,
              IF IsImage(row.content_type)
              THEN UploadsUrl(row.local_path) ELSE NoLink)

\* The row the handler inserts, by the branch it took.
AttachRow(w, id) ==
    IF loc[w].mode = "drive"
    THEN DriveRow(id, loc[w].pid, loc[w].mime, loc[w].drive_id)
    ELSE LocalRow(id, loc[w].pid, loc[w].mime, loc[w].local_path)

\* Mutant: the connection is in autocommit mode, so the row of an insert
\* whose handler raises afterwards stays in the table.
AttachInsertAutocommit(w) ==
    /\ pc[w] = "at_insert"
    /\ files_seq <= MaxFileId
    /\ files_seq' = files_seq + 1
    /\ project_files' = project_files \cup {AttachRow(w, files_seq)}
    /\ \/ /\ pc' = [pc EXCEPT ![w] = "finally"]
          /\ loc' = [loc EXCEPT ![w].fid = files_seq]
          /\ result' = [result EXCEPT ![w] =
                 Resp(200, files_seq, None,
                      {AttachItem(req[w].op, AttachRow(w, files_seq))})]
          /\ UNCHANGED req
       \/ Raise(w, "at_except", "db_error")
    /\ UNCHANGED <<pool_vars, db_vars, drive_vars, uploads, drive_files,
                   store_seq, prev_call>>

\* insert into project_files (...) returning id; conn.commit(); return ok
AttachInsert(w) ==
    /\ pc[w] = "at_insert"
    /\ \/ /\ files_seq <= MaxFileId
          /\ files_seq' = files_seq + 1
          /\ project_files' = project_files \cup {AttachRow(w, files_seq)}
          /\ pc' = [pc EXCEPT ![w] = "finally"]
          /\ loc' = [loc EXCEPT ![w].fid = files_seq]
          /\ result' = [result EXCEPT ![w] =
                 Resp(200, files_seq, None,
                      {AttachItem(req[w].op, AttachRow(w, files_seq))})]
          /\ UNCHANGED req
       \/ /\ Raise(w, "at_except", "db_error")
          /\ UNCHANGED <<project_files, files_seq>>
    /\ UNCHANGED <<pool_vars, db_vars, drive_vars, uploads, drive_files, store_seq, prev_call>>

\* except Exception: conn.rollback(); return 500 upload_failed / import_failed
AttachExcept(w) ==
    /\ pc[w] = "at_except"
    /\ Return(w, Resp(500, NoId, loc[w].exc, {}))
    /\ UNCHANGED <<pool_vars, db_vars, file_vars, prev_call>>

\* ------------------------------------------------------ list_project_files
StartList(w) ==
    /\ \E n \in Numbers : Arrive(w, [op |-> "list", number |-> n], "ls_lookup")
    /\ UNCHANGED <<pool_vars, db_vars, file_vars>>

\* pid = _get_project_id(cur, number); if not pid: return []
\* (no except clause: a database error leaves the handler unhandled)
ListLookup(w) ==
    /\ pc[w] = "ls_lookup"
    /\ \/ /\ ProjectMissing(SelectProjectId(req[w].number))
          /\ Return(w, Resp(200, NoId, None, {}))
       \/ /\ ~ProjectMissing(SelectProjectId(req[w].number))
          /\ Goto(w, "ls_select",
                  [loc[w] EXCEPT !.pid = SelectProjectId(req[w].number)])
       \/ Return(w, Resp(500, NoId, "unhandled", {}))
    /\ UNCHANGED <<pool_vars, db_vars, file_vars, prev_call>>

\* select ... from project_files where project_id=%s; rows = rows_to_dicts(cur)
ListSelect(w) ==
    /\ pc[w] = "ls_select"
    /\ \/ Goto(w, "ls_probe",
               [loc[w] EXCEPT
                  !.rows = {r \in project_files : r.project_id = loc[w].pid}])
       \/ Return(w, Resp(500, NoId, "unhandled", {}))
    /\ UNCHANGED <<pool_vars, db_vars, file_vars, prev_call>>

\* mode = storage_mode()
ListProbe(w) ==
    /\ pc[w] = "ls_probe"
    /\ \E e \in Envs :
           /\ Goto(w, "ls_links", [loc[w] EXCEPT !.mode = ModeIn(drive_svc, e)])
           /\ ProbeGlobals(e)
    /\ UNCHANGED <<pool_vars, db_vars, catalog_vars, GOOGLE_AVAILABLE, GDRIVE_ENV,
                   prev_call>>

\* Mutant: the branch looks at the mode alone.
ModeIsDrive(mode, row) == mode = "drive"

\* if mode == "drive" and r.get("drive_id"):
UsesDrive(mode, row) == mode = "drive" /\ row.drive_id # NoId

\* The item of one row; failed: _drive_file_links raised for it.
ListItem(mode, row, failed) ==
    IF UsesDrive(mode, row)
    THEN IF failed THEN Item(row, None, NoLink, NoLink)
         ELSE Item(row, None, WebContentLink(row.drive_id),
                   IF IsImage(row.content_type)
                   THEN WebViewLink(row.drive_id) ELSE NoLink)
    ELSE Item(row, None, LocalRoute(row.id),
              IF IsImage(row.content_type) /\ row.local_path # NoId
              THEN UploadsUrl(row.local_path) ELSE NoLink)

\* for r in rows: ... out.append(item); return out
\* Each Drive link lookup may fail on its own; the failure is logged.
ListLinks(w) ==
    /\ pc[w] = "ls_links"
    /\ \E failing \in SUBSET {r \in loc[w].rows : UsesDrive(loc[w].mode, r)} :
           Return(w, Resp(200, NoId, None,
                          {ListItem(loc[w].mode, r, r \in failing) :
                               r \in loc[w].rows}))
    /\ UNCHANGED <<pool_vars, db_vars, file_vars, prev_call>>

\* ----------------------------------------------------- delete_project_file
StartDeleteFile(w) ==
    /\ \E n \in Numbers, f \in 1..MaxFileId :
           Arrive(w, [op |-> "delete_file", number |-> n, file_id |-> f],
                  "df_lookup")
    /\ UNCHANGED <<pool_vars, db_vars, file_vars>>

\* pid = _get_project_id(cur, number); if not pid: return 404
\* (no except clause: a database error leaves the handler unhandled)
DeleteFileLookup(w) ==
    /\ pc[w] = "df_lookup"
    /\ \/ /\ ProjectMissing(SelectProjectId(req[w].number))
          /\ Return(w, Resp(404, NoId, "project_not_found", {}))
       \/ /\ ~ProjectMissing(SelectProjectId(req[w].number))
          /\ Goto(w, "df_select",
                  [loc[w] EXCEPT !.pid = SelectProjectId(req[w].number)])
       \/ Return(w, Resp(500, NoId, "unhandled", {}))
    /\ UNCHANGED <<pool_vars, db_vars, file_vars, prev_call>>

\* select drive_id, local_path from project_files where id=%s and project_id=%s
SelectFile(file_id, pid) ==
    {r \in project_files : r.id = file_id /\ r.project_id = pid}

\* row = cur.fetchone(); if not row: return 404; drive_id, local_path = row
\* "drive_id and storage_mode() == ..." probes only when drive_id is set.
DeleteFileSelect(w) ==
    /\ pc[w] = "df_select"
    /\ \/ /\ SelectFile(req[w].file_id, loc[w].pid) = {}
          /\ Return(w, Resp(404, NoId, "file_not_found", {}))
       \/ \E r \in SelectFile(req[w].file_id, loc[w].pid) :
              Goto(w, IF r.drive_id # NoId THEN "df_probe" ELSE "df_local",
                   [loc[w] EXCEPT !.drive_id = r.drive_id,
                                  !.local_path = r.local_path])
       \/ Return(w, Resp(500, NoId, "unhandled", {}))
    /\ UNCHANGED <<pool_vars, db_vars, file_vars, prev_call>>

\* ... and storage_mode() == "drive"
DeleteUsesDrive(mode) == mode = "drive"

\* if drive_id and storage_mode() == "drive":
DeleteFileProbe(w) ==
    /\ pc[w] = "df_probe"
    /\ \E e \in Envs :
           /\ Goto(w, IF DeleteUsesDrive(ModeIn(drive_svc, e))
                      THEN "df_remote" ELSE "df_local",
                   [loc[w] EXCEPT !.mode = ModeIn(drive_svc, e)])
           /\ ProbeGlobals(e)
    /\ UNCHANGED <<pool_vars, db_vars, catalog_vars, GOOGLE_AVAILABLE, GDRIVE_ENV,
                   prev_call>>

\* Mutant: a failing Drive delete is raised to the caller.
DeleteFileRemoteRaises(w) ==
    /\ pc[w] = "df_remote"
    /\ \/ /\ drive_files' = drive_files \ {loc[w].drive_id}
          /\ Goto(w, "df_local", [loc[w] EXCEPT !.issued = TRUE])
       \/ /\ UNCHANGED drive_files
          /\ pc' = [pc EXCEPT ![w] = "finally"]
          /\ loc' = [loc EXCEPT ![w].issued = TRUE]
          /\ result' = [result EXCEPT ![w] = Resp(500, NoId, "drive_error", {})]
          /\ UNCHANGED req
    /\ UNCHANGED <<pool_vars, db_vars, drive_vars, project_files,
                   files_seq, uploads, store_seq, prev_call>>

\* try: _drive().files().delete(fileId=drive_id).execute()
\* except: logger.warning(...)
DeleteFileRemote(w) ==
    /\ pc[w] = "df_remote"
    /\ \/ drive_files' = drive_files \ {loc[w].drive_id}
       \/ UNCHANGED drive_files
    /\ Goto(w, "df_local", [loc[w] EXCEPT !.issued = TRUE])
    /\ UNCHANGED <<pool_vars, db_vars, drive_vars, project_files, files_seq, uploads, store_seq,
                   prev_call>>

\* if local_path and os.path.exists(local_path): try: os.remove(local_path)
\* except: logger.warning(...)
DeleteFileLocal(w) ==
    /\ pc[w] = "df_local"
    /\ IF loc[w].local_path # NoId /\ loc[w].local_path \in uploads
       THEN /\ \/ uploads' = uploads \ {loc[w].local_path}
               \/ UNCHANGED uploads
            /\ Goto(w, "df_delete", [loc[w] EXCEPT !.removed = TRUE])
       ELSE /\ UNCHANGED uploads
            /\ Goto(w, "df_delete", loc[w])
    /\ UNCHANGED <<pool_vars, db_vars, drive_vars, project_files, files_seq, drive_files, store_seq,
                   prev_call>>

\* Mutant: the delete statement blanks the row's tags and keeps the row.
DeleteFileRowSoft(w) ==
    /\ pc[w] = "df_delete"
    /\ project_files' =
           {IF r \in SelectFile(req[w].file_id, loc[w].pid)
            THEN [r EXCEPT !.drive_id = NoId, !.local_path = NoId]
            ELSE r : r \in project_files}
    /\ Return(w, Resp(200, req[w].file_id, None, {}))
    /\ UNCHANGED <<pool_vars, db_vars, drive_vars, files_seq, uploads,
                   drive_files, store_seq, prev_call>>

\* delete from project_files where id=%s and project_id=%s; commit; return ok
DeleteFileRow(w) ==
    /\ pc[w] = "df_delete"
    /\ \/ /\ project_files' =
                 project_files \ SelectFile(req[w].file_id, loc[w].pid)
          /\ Return(w, Resp(200, req[w].file_id, None, {}))
       \/ /\ Return(w, Resp(500, NoId, "unhandled", {}))
          /\ UNCHANGED project_files
    /\ UNCHANGED <<pool_vars, db_vars, drive_vars, files_seq, uploads, drive_files, store_seq,
                   prev_call>>

\* --------------------------------------------- health and debug_storage
\* The open routes that only probe: health returns storage_mode(),
\* debug_storage returns the probe's mode and reason.
StartHealth(w) ==
    /\ Arrive(w, [op |-> "health"], "hl_probe")
    /\ UNCHANGED <<pool_vars, db_vars, file_vars>>

StartDebugStorage(w) ==
    /\ Arrive(w, [op |-> "debug_storage"], "ds_probe")
    /\ UNCHANGED <<pool_vars, db_vars, file_vars>>

\* The locals after ok, reason = _probe_drive() in environment e.
Probed(w, e) ==
    [loc[w] EXCEPT !.probe = ProbeDrive(drive_svc, e),
                   !.mode = ModeIn(drive_svc, e),
                   !.env = e,
                   !.calls = ProbeCalls(drive_svc, e)]

\* return {"ok": True, "storage": storage_mode()}
HealthProbe(w) ==
    /\ pc[w] = "hl_probe"
    /\ \E e \in Envs :
           /\ pc' = [pc EXCEPT ![w] = "finally"]
           /\ loc' = [loc EXCEPT ![w] = Probed(w, e)]
           /\ result' = [result EXCEPT ![w] =
                  Resp(200, NoId, ModeIn(drive_svc, e), {})]
           /\ ProbeGlobals(e)
    /\ UNCHANGED <<pool_vars, db_vars, catalog_vars, GOOGLE_AVAILABLE, GDRIVE_ENV, req,
                   prev_call>>

\* ok, reason = _probe_drive(); return {..., "mode_now": ..., "probe_reason": reason}
DebugStorageProbe(w) ==
    /\ pc[w] = "ds_probe"
    /\ \E e \in Envs :
           /\ pc' = [pc EXCEPT ![w] = "finally"]
           /\ loc' = [loc EXCEPT ![w] = Probed(w, e)]
           /\ result' = [result EXCEPT ![w] =
                  Resp(200, NoId, ProbeDrive(drive_svc, e)[2], {})]
           /\ ProbeGlobals(e)
    /\ UNCHANGED <<pool_vars, db_vars, catalog_vars, GOOGLE_AVAILABLE, GDRIVE_ENV, req,
                   prev_call>>

\* The files().get of the probe against an upstream that never answers.
\* .execute() is called without a timeout of its own (nor does _drive()
\* give the service one), so apart from what the transport does by default
\* (then the call raises: the branch of the probe with reach FALSE) the
\* worker stays in the call.  The call is reached when the environment is
\* ready and _drive() returned a service, which is then cached.
ProbeUnanswered(w) ==
    /\ pc[w] \in {"hl_probe", "ds_probe"}
    /\ \E e \in Envs :
           /\ ProbeCalls(drive_svc, e) = 1
           /\ ~e.reach
           /\ loc' = [loc EXCEPT ![w] =
                  [loc[w] EXCEPT !.env = e, !.calls = 1]]
    /\ pc' = [pc EXCEPT ![w] = "in_execute"]
    /\ drive_svc' = TRUE
    /\ UNCHANGED <<pool_vars, db_vars, catalog_vars, GOOGLE_AVAILABLE,
                   GDRIVE_ENV, last_drive_probe, req, result, prev_call>>

\* ----------------------------------------------------------- specification
\* The process has started on an empty database and an empty uploads
\* directory, configured for Drive.
Init ==
    /\ projects = {}
    /\ projects_seq = 1
    /\ name_not_null \in BOOLEAN
    /\ clients = {}
    /\ clients_seq = 1
    /\ project_files = {}
    /\ files_seq = 1
    /\ uploads = {}
    /\ drive_files = {}
    /\ store_seq = 1
    /\ GOOGLE_AVAILABLE = TRUE
    /\ GDRIVE_ENV = TRUE
    /\ drive_svc = FALSE
    /\ last_drive_probe = <<FALSE, "not_checked">>
    /\ app = "running"
    /\ DATABASE_URL = TRUE
    /\ POOL = "active"
    /\ pool_free = minconn
    /\ pool_used = 0
    /\ direct_open = 0
    /\ elsewhere = 0
    /\ pc = [w \in Workers |-> "idle"]
    /\ req = [w \in Workers |-> NoReq]
    /\ loc = [w \in Workers |-> NoLoc]
    /\ result = [w \in Workers |-> NoResult]
    /\ prev_call = NoCall

\* The record handlers, run by the workers of W on bodies over V.
RecordStep(w, V) ==
    \/ StartUpsert(w, V)
    \/ UpsertSelect(w)
    \/ UpsertUpdate(w)
    \/ UpsertInsert(w)
    \/ UpsertExcept(w)
    \/ StartDeleteProject(w)
    \/ DeleteProject(w)
    \/ Finally(w)

\* Concurrent workers on the record handlers (field values from a
\* one-element set: the interleavings are what this specification explores).
Next == \E w \in Workers : RecordStep(w, {"a"})

Spec == Init /\ [][Next]_vars

\* One caller issuing record requests back to back, the bodies over Vals.
NextSeq == RecordStep("w1", Vals)

SpecSeq == Init /\ [][NextSeq]_vars

\* The file handlers.
FileStep(w) ==
    \/ StartUpload(w)
    \/ StartImport(w)
    \/ AttachLookup(w)
    \/ ImportFetch(w)
    \/ AttachProbe(w)
    \/ AttachStore(w)
    \/ AttachInsert(w)
    \/ AttachExcept(w)
    \/ StartList(w)
    \/ ListLookup(w)
    \/ ListSelect(w)
    \/ ListProbe(w)
    \/ ListLinks(w)
    \/ StartDeleteFile(w)
    \/ DeleteFileLookup(w)
    \/ DeleteFileSelect(w)
    \/ DeleteFileProbe(w)
    \/ DeleteFileRemote(w)
    \/ DeleteFileLocal(w)
    \/ DeleteFileRow(w)
    \/ Finally(w)

\* The file catalog: project P1 has been created (one upsert with a name
\* has run), P2 has not; the workers run the file handlers, which never
\* write the projects table.
InitFiles ==
    /\ projects = InsertedRows(1, "P1", [c \in field_map |-> "a"])
    /\ projects_seq = 2
    /\ name_not_null = TRUE
    /\ clients = {}
    /\ clients_seq = 1
    /\ project_files = {}
    /\ files_seq = 1
    /\ uploads = {}
    /\ drive_files = {}
    /\ store_seq = 1
    /\ GOOGLE_AVAILABLE = TRUE
    /\ GDRIVE_ENV = TRUE
    /\ drive_svc = FALSE
    /\ last_drive_probe = <<FALSE, "not_checked">>
    /\ app = "running"
    /\ DATABASE_URL = TRUE
    /\ POOL = "active"
    /\ pool_free = minconn
    /\ pool_used = 0
    /\ direct_open = 0
    /\ elsewhere = 0
    /\ pc = [w \in Workers |-> "idle"]
    /\ req = [w \in Workers |-> NoReq]
    /\ loc = [w \in Workers |-> NoLoc]
    /\ result = [w \in Workers |-> NoResult]
    /\ prev_call = NoCall

\* One request at a time; what changes between and during requests is what
\* the probe finds.
NextFiles == FileStep("w1")

SpecFiles == InitFiles /\ [][NextFiles]_vars

\* The client route, on an empty clients table.
ClientStep(w) ==
    \/ StartUpsertClient(w)
    \/ UpsertClient(w)
    \/ UpsertClientExcept(w)
    \/ Finally(w)

NextClients == \E w \in Workers : ClientStep(w)

SpecClients == Init /\ [][NextClients]_vars

\* The handlers that write the database, run by one worker after another:
\* projects are created and updated and files are attached to them.
WriteStep(w) ==
    \/ StartUpsert(w, {"a"})
    \/ UpsertSelect(w)
    \/ UpsertUpdate(w)
    \/ UpsertInsert(w)
    \/ UpsertExcept(w)
    \/ StartUpload(w)
    \/ StartImport(w)
    \/ AttachLookup(w)
    \/ ImportFetch(w)
    \/ AttachProbe(w)
    \/ AttachStore(w)
    \/ AttachInsert(w)
    \/ AttachExcept(w)
    \/ Finally(w)

\* The process has started on an empty database without the Drive
\* libraries, so every probe answers local and the bytes go to uploads.
InitWrites ==
    /\ projects = {}
    /\ projects_seq = 1
    /\ name_not_null = TRUE
    /\ clients = {}
    /\ clients_seq = 1
    /\ project_files = {}
    /\ files_seq = 1
    /\ uploads = {}
    /\ drive_files = {}
    /\ store_seq = 1
    /\ GOOGLE_AVAILABLE = FALSE
    /\ GDRIVE_ENV = TRUE
    /\ drive_svc = FALSE
    /\ last_drive_probe = <<FALSE, "not_checked">>
    /\ app = "running"
    /\ DATABASE_URL = TRUE
    /\ POOL = "active"
    /\ pool_free = minconn
    /\ pool_used = 0
    /\ direct_open = 0
    /\ elsewhere = 0
    /\ pc = [w \in Workers |-> "idle"]
    /\ req = [w \in Workers |-> NoReq]
    /\ loc = [w \in Workers |-> NoLoc]
    /\ result = [w \in Workers |-> NoResult]
    /\ prev_call = NoCall

NextWrites == WriteStep("w1")

SpecWrites == InitWrites /\ [][NextWrites]_vars

\* Files are attached to project P1 and projects are deleted, by one
\* worker after another.
ProjectDeleteStep(w) ==
    \/ StartDeleteProject(w)
    \/ DeleteProject(w)
    \/ StartUpload(w)
    \/ AttachLookup(w)
    \/ AttachProbe(w)
    \/ AttachStore(w)
    \/ AttachInsert(w)
    \/ AttachExcept(w)
    \/ Finally(w)

NextProjectDelete == ProjectDeleteStep("w1")

SpecProjectDelete == InitFiles /\ [][NextProjectDelete]_vars

\* The probing routes.
ProbeStep(w) ==
    \/ StartHealth(w)
    \/ HealthProbe(w)
    \/ StartDebugStorage(w)
    \/ DebugStorageProbe(w)
    \/ ProbeUnanswered(w)
    \/ Finally(w)

\* The process has started with or without the Drive libraries and the
\* Drive configuration; no probe has run yet.
InitProbe ==
    /\ projects = {}
    /\ projects_seq = 1
    /\ name_not_null \in BOOLEAN
    /\ clients = {}
    /\ clients_seq = 1
    /\ project_files = {}
    /\ files_seq = 1
    /\ uploads = {}
    /\ drive_files = {}
    /\ store_seq = 1
    /\ GOOGLE_AVAILABLE \in BOOLEAN
    /\ GDRIVE_ENV \in BOOLEAN
    /\ drive_svc = FALSE
    /\ last_drive_probe = <<FALSE, "not_checked">>
    /\ app = "running"
    /\ DATABASE_URL = TRUE
    /\ POOL = "active"
    /\ pool_free = minconn
    /\ pool_used = 0
    /\ direct_open = 0
    /\ elsewhere = 0
    /\ pc = [w \in Workers |-> "idle"]
    /\ req = [w \in Workers |-> NoReq]
    /\ loc = [w \in Workers |-> NoLoc]
    /\ result = [w \in Workers |-> NoResult]
    /\ prev_call = NoCall

NextProbe == \E w \in Workers : ProbeStep(w)

SpecProbe == InitProbe /\ [][NextProbe]_vars

\* The handlers with their connection handling.
PoolStep(w) ==
    \/ StartDeleteProjectDb(w)
    \/ StartDebugDb(w)
    \/ Db(w)
    \/ DbConnect(w)
    \/ Cursor(w)
    \/ Escaped(w)
    \/ DeleteProject(w)
    \/ DebugDbExecute(w)
    \/ Finally(w)

\* The process before its startup event, with or without DATABASE_URL.
InitPool ==
    /\ projects = {}
    /\ projects_seq = 1
    /\ name_not_null = TRUE
    /\ clients = {}
    /\ clients_seq = 1
    /\ project_files = {}
    /\ files_seq = 1
    /\ uploads = {}
    /\ drive_files = {}
    /\ store_seq = 1
    /\ GOOGLE_AVAILABLE = TRUE
    /\ GDRIVE_ENV = TRUE
    /\ drive_svc = FALSE
    /\ last_drive_probe = <<FALSE, "not_checked">>
    /\ app = "starting"
    /\ DATABASE_URL \in BOOLEAN
    /\ POOL = "none"
    /\ pool_free = 0
    /\ pool_used = 0
    /\ direct_open = 0
    /\ elsewhere = 0
    /\ pc = [w \in Workers |-> "idle"]
    /\ req = [w \in Workers |-> NoReq]
    /\ loc = [w \in Workers |-> NoLoc]
    /\ result = [w \in Workers |-> NoResult]
    /\ prev_call = NoCall

NextPool ==
    \/ Startup
    \/ Shutdown
    \/ ElsewhereAcquire
    \/ ElsewhereRelease
    \/ \E w \in Workers : PoolStep(w)

SpecPool == InitPool /\ [][NextPool]_vars

\* ------------------------------------------------------------ properties
Returned(w, op) == pc[w] = "finally" /\ req[w].op = op

\* C1: an upsert repeated with the same number and body immediately after
\* a successful one returns success with the same id and leaves exactly one
\* row with that number (unless the database itself fails during the call).
UpsertTwiceSameId ==
    \A w \in Workers :
        /\ Returned(w, "upsert")
        /\ prev_call.stage \in {"returned", "failed"}
        /\ prev_call.second # NoId
        => \/ result[w].detail = "db_error"
           \/ /\ result[w].status = 200
              /\ result[w].id = prev_call.second
              /\ Cardinality(ProjectRows(req[w].number)) = 1

\* C1 witness: the second of two identical calls with every field given
\* has returned the first call's id.
UpsertTwiceSameIdWitness ==
    \E w \in Workers :
        /\ Returned(w, "upsert")
        /\ prev_call.stage = "returned"
        /\ prev_call.second # NoId
        /\ \A c \in field_map : req[w].data[c] # None
        /\ result[w].id = prev_call.second

\* C2: the update of an upsert sets exactly the columns given non-None to
\* the given values and keeps every other column, and no step of any
\* handler turns a non-null column of a row that stays in the table into null.
UpsertKeepsLastNonNull ==
    [][/\ \A w \in Workers :
             (pc[w] = "up_update" /\ pc'[w] = "finally") =>
                 \A r \in projects :
                     r.id = loc[w].pid =>
                         \E r2 \in projects' :
                             /\ r2.id = r.id
                             /\ r2.number = r.number
                             /\ \A c \in field_map :
                                    r2.cols[c] =
                                        IF req[w].data[c] # None
                                        THEN req[w].data[c] ELSE r.cols[c]
       /\ \A r \in projects, r2 \in projects' :
              r.id = r2.id =>
                  \A c \in field_map : r.cols[c] # None => r2.cols[c] # None
      ]_vars

\* C2 witness: an update has returned whose body left out a column that the
\* row holds non-null, and gave another one.
UpsertKeepsLastNonNullWitness ==
    \E w \in Workers, r \in projects, c, d \in field_map :
        /\ Returned(w, "upsert")
        /\ result[w].status = 200
        /\ loc[w].pid = r.id
        /\ req[w].data[c] = None /\ r.cols[c] # None
        /\ req[w].data[d] # None /\ r.cols[d] = req[w].data[d]

\* C3 (as claimed): an upsert of a number that has no row, with no name,
\* ends in a 4xx validation error and creates no row.
CreateWithoutNameIsRejected ==
    \A w \in Workers :
        /\ Returned(w, "upsert")
        /\ loc[w].pid = NoId
        /\ req[w].data["name"] = None
        /\ loc[w].exc # "db_error"
        => /\ result[w].status \in 400..499
           /\ ProjectRows(req[w].number) = {}

\* C4: no two rows of projects share a number (or an id), and when two
\* overlapping upserts of one number that both found no row have returned,
\* one with success and the other with success or a unique violation,
\* exactly one row has that number, under an id that was returned.
UniqueProjectNumber ==
    /\ \A r1, r2 \in projects :
           (r1.number = r2.number \/ r1.id = r2.id) => r1 = r2
    /\ \A w1, w2 \in Workers :
           /\ w1 # w2
           /\ Returned(w1, "upsert") /\ Returned(w2, "upsert")
           /\ req[w1].number = req[w2].number
           /\ loc[w1].pid = NoId /\ loc[w2].pid = NoId
           /\ result[w1].status = 200
           /\ result[w2].status = 200 \/ loc[w2].exc = "unique_violation"
           => /\ Cardinality(ProjectRows(req[w1].number)) = 1
              /\ \E w \in {w1, w2} :
                     /\ result[w].status = 200
                     /\ result[w].id = SelectProjectId(req[w1].number)

\* C4 witness: two upserts of one new number raced (both found no row) and
\* both have returned.
UniqueProjectNumberWitness ==
    \E w1, w2 \in Workers :
        /\ w1 # w2
        /\ Returned(w1, "upsert") /\ Returned(w2, "upsert")
        /\ req[w1].number = req[w2].number
        /\ loc[w1].pid = NoId /\ loc[w2].pid = NoId
        /\ result[w1].status = 200
        /\ loc[w2].exc = "unique_violation"

\* C5 (as claimed): an upsert whose insert met a unique violation returns
\* success with the id of the existing row.
UniqueViolationRetriedAsUpdate ==
    \A w \in Workers :
        /\ Returned(w, "upsert")
        /\ loc[w].exc = "unique_violation"
        => /\ result[w].status = 200
           /\ result[w].id = SelectProjectId(req[w].number)

Attach(w) == req[w].op \in {"upload", "import"}

\* C6: an upload or import whose project lookup finds no row returns 404
\* project_not_found in that very step and changes no table and no backend;
\* a handler that returned project_not_found has stored nothing and
\* inserted nothing.
AttachToMissingProjectWritesNothing ==
    /\ [][\A w \in Workers :
              /\ pc[w] = "at_lookup"
              /\ pc'[w] # "at_lookup"
              /\ SelectProjectId(req[w].number) = NoId
              /\ pc'[w] # "at_except"
              => /\ pc'[w] = "finally"
                 /\ result'[w].status = 404
                 /\ result'[w].detail = "project_not_found"
                 /\ UNCHANGED <<project_files, uploads, drive_files>>]_vars
    /\ [](\A w \in Workers :
              /\ pc[w] = "finally" /\ Attach(w)
              /\ result[w].detail = "project_not_found"
              => /\ loc[w].drive_id = NoId
                 /\ loc[w].local_path = NoId
                 /\ loc[w].fid = NoId
                 /\ \A r \in project_files :
                        r.project_id # SelectProjectId(req[w].number))

\* C6 witness: an import to a missing project has returned 404 while the
\* catalog and both backends hold files of another project.
AttachToMissingProjectWitness ==
    \E w \in Workers :
        /\ Returned(w, "import")
        /\ result[w].detail = "project_not_found"
        /\ project_files # {} /\ uploads # {} /\ drive_files # {}

\* C7 (as claimed): every item a list returns for a row tagged with a
\* drive_id is resolved through Drive, never through the local route,
\* whatever the list's own probe reported.
RemoteFileListedViaRemote ==
    \A w \in Workers :
        Returned(w, "list") =>
            \A it \in result[w].items :
                it.drive_id # NoId =>
                    /\ it.download.kind # "local_route"
                    /\ it.preview.kind # "uploads"

\* C8: an attach whose probe reported local and that met no exception
\* returns success with storage local, has written the file to uploads and
\* inserted a row with that local_path and no drive_id; and every item a
\* list returns for a row without drive_id carries the local route of that
\* row and no Drive link, whatever the list's probe reported.
LocalFileStaysLocal ==
    /\ \A w \in Workers :
           /\ pc[w] = "finally" /\ Attach(w)
           /\ loc[w].mode = "local" /\ loc[w].exc = None
           => /\ result[w].status = 200
              /\ loc[w].local_path \in uploads
              /\ \E r \in project_files :
                     /\ r.id = result[w].id
                     /\ r.drive_id = NoId
                     /\ r.local_path = loc[w].local_path
              /\ \A it \in result[w].items :
                     /\ it.storage = "local"
                     /\ it.download.kind \in {"local_route", "none"}
                     /\ it.preview.kind \in {"uploads", "none"}
    /\ \A w \in Workers :
           Returned(w, "list") =>
               \A it \in result[w].items :
                   it.drive_id = NoId =>
                       /\ it.download = LocalRoute(it.id)
                       /\ it.preview.kind \in {"uploads", "none"}

\* C8 witness: a list whose probe reported drive has returned an item for a
\* row stored locally.
LocalFileStaysLocalWitness ==
    \E w \in Workers :
        /\ Returned(w, "list")
        /\ loc[w].mode = "drive"
        /\ \E it \in result[w].items :
               it.drive_id = NoId /\ it.local_path # NoId

\* C9 (as claimed): a file delete that returned success has removed the
\* row and has issued the delete in the backend of the row's tag: the Drive
\* delete call for a row with a drive_id, whatever the probe reported, and
\* the removal of the local file for a row with a local_path.
DeleteFileDeletesTaggedBytes ==
    \A w \in Workers :
        /\ Returned(w, "delete_file")
        /\ result[w].status = 200
        => /\ SelectFile(req[w].file_id, loc[w].pid) = {}
           /\ loc[w].drive_id # NoId => loc[w].issued
           /\ loc[w].local_path # NoId =>
                  loc[w].removed \/ loc[w].local_path \notin uploads

\* C10: every row of project_files has exactly one of drive_id and
\* local_path set.
ExactlyOneTag ==
    \A r \in project_files : (r.drive_id = NoId) # (r.local_path = NoId)

\* C10 witness: an import has returned success and the table holds a row
\* tagged drive and a row tagged local.
ExactlyOneTagWitness ==
    \E w \in Workers :
        /\ Returned(w, "import")
        /\ result[w].status = 200
        /\ \E r1, r2 \in project_files :
               r1.drive_id # NoId /\ r2.local_path # NoId

\* C11: a row of project_files that is still in the table after a step of
\* any handler is the same row: no step changes the drive_id, local_path,
\* filename, content type or project id of a row, and no step brings in a
\* different row under an id in use.
CatalogRowsImmutable ==
    [][\A r \in project_files :
           \A r2 \in project_files' : r2.id = r.id => r2 = r]_vars

\* C11 witness: the delete of one file has returned success while another
\* row is in the table.
CatalogRowsImmutableWitness ==
    \E w \in Workers :
        /\ Returned(w, "delete_file")
        /\ result[w].status = 200
        /\ \E r \in project_files : r.id # req[w].file_id

\* C12: a file delete whose Drive delete call failed (the object is still
\* in Drive) or whose os.remove failed (the file is still in uploads), and
\* that met no database error, returns success and the row is gone.
DeleteFileIgnoresBackendFailure ==
    \A w \in Workers :
        /\ Returned(w, "delete_file")
        /\ \/ loc[w].issued /\ loc[w].drive_id \in drive_files
           \/ loc[w].removed /\ loc[w].local_path \in uploads
        /\ result[w].detail # "unhandled"
        => /\ result[w].status = 200
           /\ SelectFile(req[w].file_id, loc[w].pid) = {}

\* C12 witness: a delete has returned success although its Drive delete
\* call failed and left the object in Drive.
DeleteFileIgnoresBackendFailureWitness ==
    \E w \in Workers :
        /\ Returned(w, "delete_file")
        /\ result[w].status = 200
        /\ loc[w].issued /\ loc[w].drive_id \in drive_files

\* C13: the step of an import that ends the handler at the fetch returns
\* 502 and changes neither the catalog nor a backend; an import that
\* returned 502 has probed nothing, stored nothing and inserted nothing.
FailedFetchStoresNothing ==
    /\ [][\A w \in Workers :
              (pc[w] = "im_fetch" /\ pc'[w] = "finally")
              => /\ result'[w].status = 502
                 /\ result'[w].detail \in {"upstream_error", "import_failed"}
                 /\ UNCHANGED <<project_files, files_seq, uploads,
                                drive_files>>]_vars
    /\ [](\A w \in Workers :
              (Returned(w, "import") /\ result[w].status = 502)
              => /\ loc[w].mode = None
                 /\ loc[w].drive_id = NoId
                 /\ loc[w].local_path = NoId
                 /\ loc[w].fid = NoId)

\* C13 witness: an import has returned 502 for a network failure, and no
\* row and no stored object exists.
FailedFetchStoresNothingWitness ==
    \E w \in Workers :
        /\ Returned(w, "import")
        /\ result[w].status = 502
        /\ result[w].detail = "import_failed"
        /\ project_files = {} /\ uploads = {} /\ drive_files = {}

\* C15 (as claimed): an attach ends in a storage failure only after the
\* local write has been tried and has failed: a failing Drive upload alone
\* never ends the request in 500.
AttachFailsOnlyWhenLocalFails ==
    \A w \in Workers :
        /\ pc[w] = "finally" /\ Attach(w)
        /\ result[w].status = 500
        /\ loc[w].exc \in {"drive_error", "io_error"}
        => loc[w].exc = "io_error"

\* C14 (as claimed): the mode a probing route returns is the mode that
\* the environment and Drive's answer at the moment of the call give to a
\* call with nothing kept from earlier calls.
StorageModeKeepsNoState ==
    \A w \in Workers :
        Returned(w, "health") =>
            result[w].detail = ModeIn(FALSE, loc[w].env)

\* C16: a probe that finds the libraries missing reports
\* google_libs_unavailable, else missing configuration missing_env, else a
\* missing credentials file creds_file_missing, each with mode local and
\* without a Drive call; a Drive call is made only when all three pass, and
\* at most one; its success gives drive with reason ok, and every failure
\* after the preconditions gives local with reason drive_probe_failed.
ProbeOrder ==
    \A w \in Workers :
        Returned(w, "debug_storage") =>
            LET e == loc[w].env
                ready == GOOGLE_AVAILABLE /\ GDRIVE_ENV /\ e.creds_exists
            IN  /\ ~GOOGLE_AVAILABLE =>
                       loc[w].probe = <<FALSE, "google_libs_unavailable">>
                /\ (GOOGLE_AVAILABLE /\ ~GDRIVE_ENV) =>
                       loc[w].probe = <<FALSE, "missing_env">>
                /\ (GOOGLE_AVAILABLE /\ GDRIVE_ENV /\ ~e.creds_exists) =>
                       loc[w].probe = <<FALSE, "creds_file_missing">>
                /\ ~ready => loc[w].calls = 0
                /\ loc[w].calls \in {0, 1}
                /\ (ready /\ loc[w].calls = 1 /\ e.reach) =>
                       loc[w].probe = <<TRUE, "ok">>
                /\ (ready /\ ~(loc[w].calls = 1 /\ e.reach)) =>
                       loc[w].probe = <<FALSE, "drive_probe_failed">>
                /\ loc[w].mode = (IF loc[w].probe[1] THEN "drive" ELSE "local")
                /\ result[w].detail = loc[w].probe[2]

\* C16 witness: a probe in a process without the libraries and without the
\* configuration has reported the libraries.
ProbeOrderWitness ==
    \E w \in Workers :
        /\ Returned(w, "debug_storage")
        /\ ~GOOGLE_AVAILABLE /\ ~GDRIVE_ENV
        /\ loc[w].env.creds_exists
        /\ loc[w].probe[2] = "google_libs_unavailable"

\* The requests inside a handler that hold a connection.
Holders ==
    {w \in Workers : pc[w] \notin {"idle", "escaped"} /\ loc[w].conn # None}

\* C17 (as claimed): every connection that is checked out of the pool or
\* was opened directly is in the hands of a request that is still inside
\* its handler: a request that left its handler, on any path, has handed
\* its connection back or closed it.
ConnectionsReturnedOrClosed ==
    app = "running" =>
        pool_used + direct_open = elsewhere + Cardinality(Holders)

\* C18 (as claimed): under any interleaving of db() and close_conn() the
\* pool has at most maxconn connections checked out.
PoolWithinMax == pool_used <= maxconn

\* C19 (as claimed): with an active pool no acquire ends in an error for
\* lack of a free connection.
ExhaustedAcquireWaits ==
    \A w \in Workers : POOL = "active" => loc[w].exc # "PoolError"

\* C20 (as claimed): without a pool every db() that does not meet a
\* connection failure returns a direct connection.
FallbackAlwaysConnects ==
    [][\A w \in Workers :
           /\ pc[w] = "db" /\ pc'[w] # "db"
           /\ POOL = "none"
           /\ loc'[w].exc # "OperationalError"
           => loc'[w].conn # None]_vars

\* C20 (amended): startup never crashes: it ends with the process running
\* and the pool active or, always so without DATABASE_URL, absent; without
\* a pool db() leaves the pool alone and either returns a new direct
\* connection, which needs DATABASE_URL, or raises: RuntimeError exactly
\* when DATABASE_URL is missing, a connection error otherwise.
FallbackToDirectConnection ==
    [][/\ app = "starting" =>
              /\ app' = "running"
              /\ POOL' \in {"none", "active"}
              /\ ~DATABASE_URL => POOL' = "none"
       /\ \A w \in Workers :
              (pc[w] = "db" /\ pc'[w] # "db" /\ POOL = "none") =>
                  /\ UNCHANGED <<pool_free, pool_used>>
                  /\ \/ /\ DATABASE_URL
                         /\ pc'[w] = "cursor"
                         /\ loc'[w].conn = "direct"
                         /\ direct_open' = direct_open + 1
                      \/ /\ ~DATABASE_URL
                         /\ loc'[w].exc = "RuntimeError"
                         /\ UNCHANGED direct_open
                      \/ /\ DATABASE_URL
                         /\ loc'[w].exc = "OperationalError"
                         /\ UNCHANGED direct_open
      ]_vars

\* C20 witness: DATABASE_URL is set, startup left no pool, and a request
\* works on a direct connection.
FallbackToDirectConnectionWitness ==
    \E w \in Workers :
        /\ app = "running" /\ POOL = "none" /\ DATABASE_URL
        /\ pc[w] = "dp_delete"
        /\ loc[w].conn = "direct"
        /\ direct_open > 0

\* C21 (as claimed): a release at the end of a handler that ended with a
\* database failure never puts the connection back among the pool's idle
\* connections.
ReleaseOnlyHealthy ==
    [][\A w \in Workers :
           \/ /\ pc[w] = "finally" /\ pc'[w] = "idle"
              /\ loc[w].conn # None
              /\ result[w].status = 500
           \/ /\ pc[w] = "dd_execute" /\ pc'[w] = "finally"
              /\ result'[w].status = 500
           => pool_free' <= pool_free]_vars

FailedWriteRollsBack ==
    [][/\ \A w \in Workers :
              /\ pc'[w] # pc[w]
              /\ \/ pc[w] \in {"up_except", "at_except"}
                 \/ pc'[w] \in {"up_except", "at_except"}
              => UNCHANGED <<projects, clients, project_files>>
       /\ <<projects, clients, project_files>>' #
              <<projects, clients, project_files>>
              => \E w \in Workers :
                     /\ pc[w] # "finally" /\ pc'[w] = "finally"
                     /\ result'[w].status = 200]_vars

\* C23 witness: an upload or import whose insert failed after the bytes
\* were stored has returned 500 while the catalog holds an earlier file.
FailedWriteRollsBackWitness ==
    \E w \in Workers :
        /\ Attach(w)
        /\ pc[w] = "finally"
        /\ result[w].status = 500
        /\ loc[w].exc = "db_error"
        /\ loc[w].local_path # NoId
        /\ project_files # {}

\* C24 (as claimed): every descriptor an upload, import or list returns
\* carries a preview link only if its content type is an image type.
PreviewOnlyForImages ==
    \A w \in Workers :
        pc[w] = "finally" =>
            \A it \in result[w].items :
                it.preview # NoLink => IsImage(it.content_type)

\* C25 (as claimed): the probe's remote call is bounded by a timeout, so
\* no worker stays inside the call when the upstream never answers.
ProbeCallBounded ==
    \A w \in Workers : pc[w] # "in_execute"

\* C26: the delete statement removes the rows of the number and nothing
\* else: the rows of project_files and the bytes in both backends stay;
\* the response is 200 exactly when a row was deleted, 404 when there was
\* none (and an exception of the statement itself deletes nothing).
DeleteProjectLeavesFiles ==
    [][\A w \in Workers :
           (pc[w] = "dp_delete" /\ pc'[w] # "dp_delete") =>
               /\ UNCHANGED <<project_files, uploads, drive_files>>
               /\ projects' \in
                      {projects, projects \ ProjectRows(req[w].number)}
               /\ result'[w].status \in {200, 404, 500}
               /\ result'[w].status = 200 <=> projects' # projects
               /\ result'[w].status = 404 =>
                      ProjectRows(req[w].number) = {}]_vars

\* C26 witness: a project delete has returned 200 and the catalog holds a
\* row of that project, with its bytes still stored.
DeleteProjectLeavesFilesWitness ==
    \E w \in Workers, f \in project_files :
        /\ Returned(w, "delete_project")
        /\ result[w].status = 200
        /\ f.project_id \notin {r.id : r \in projects}
        /\ \/ f.local_path \in uploads
           \/ f.drive_id \in drive_files

\* C27: the clients table never holds two rows with one name, no row of it
\* is ever changed or removed, and every client upsert that has returned
\* returned success with the id of the row of its name, unless the
\* statement or the commit itself failed.
ClientUpsertOneRowPerName ==
    /\ [](\A r1, r2 \in clients : r1.name = r2.name => r1 = r2)
    /\ [](\A w \in Workers :
              Returned(w, "upsert_client") =>
                  \/ /\ result[w].status = 200
                     /\ \E r \in clients :
                            r.name = req[w].name /\ r.id = result[w].id
                  \/ /\ result[w].status = 500
                     /\ loc[w].exc = "db_error")
    /\ [][\A r \in clients : r \in clients']_vars

\* C27 witness: two concurrent client upserts of one name have both
\* returned success with the same id.
ClientUpsertOneRowPerNameWitness ==
    \E w1, w2 \in Workers :
        /\ w1 # w2
        /\ Returned(w1, "upsert_client") /\ Returned(w2, "upsert_client")
        /\ req[w1].name = req[w2].name
        /\ result[w1].status = 200 /\ result[w2].status = 200
        /\ result[w1].id = result[w2].id
        /\ Cardinality(clients) = 1

\* C28: the update step of an upsert whose fields are all None writes
\* nothing, raises nothing and returns success with the id looked up.
AllNullUpsertWritesNothing ==
    [][\A w \in Workers :
           /\ pc[w] = "up_update" /\ pc'[w] # "up_update"
           /\ \A c \in field_map : req[w].data[c] = None
           => /\ pc'[w] = "finally"
              /\ result'[w] = Resp(200, loc[w].pid, None, {})
              /\ UNCHANGED <<projects, projects_seq>>]_vars

\* C28 witness: an upsert with every field None has found a row and
\* returned success.
AllNullUpsertWritesNothingWitness ==
    \E w \in Workers :
        /\ Returned(w, "upsert")
        /\ \A c \in field_map : req[w].data[c] = None
        /\ loc[w].pid # NoId
        /\ result[w].status = 200
        /\ ProjectRows(req[w].number) # {}

\* C29: the update step of an upsert leaves every row with another id as
\* it is, adds and removes no row, and on the row with the id looked up
\* changes neither id nor number nor any column whose field is None.
UpdateTouchesOnlyLookedUpRow ==
    [][\A w \in Workers :
           (pc[w] = "up_update" /\ pc'[w] # "up_update") =>
               /\ \A r \in projects : r.id # loc[w].pid => r \in projects'
               /\ Cardinality(projects') = Cardinality(projects)
               /\ \A r \in projects, r2 \in projects' :
                      r2.id = r.id =>
                          /\ r2.number = r.number
                          /\ \A c \in field_map :
                                 req[w].data[c] = None =>
                                     r2.cols[c] = r.cols[c]]_vars

\* C29 witness: an update has returned after writing a column of its row
\* while the table holds a row of the other number.
UpdateTouchesOnlyLookedUpRowWitness ==
    \E w \in Workers, r, o \in projects :
        /\ Returned(w, "upsert")
        /\ result[w].status = 200
        /\ r.id = loc[w].pid
        /\ o.id # r.id
        /\ \E c \in field_map :
               req[w].data[c] # None /\ o.cols[c] # req[w].data[c]

\* C30 (as claimed): at the step in which an upsert returns success, a
\* row with the returned id and the request's number is in the table.
UpsertSuccessImpliesRow ==
    [][\A w \in Workers :
           /\ req[w].op = "upsert"
           /\ pc[w] # "finally" /\ pc'[w] = "finally"
           /\ result'[w].status = 200
           => \E r \in projects' :
                  r.id = result'[w].id /\ r.number = req[w].number]_vars

\* C31 (as claimed): when an upload or import has completed without
\* success, the bytes it stored, in uploads or on Drive, are either gone
\* again or referenced by a row of the catalog.
FailedAttachLeavesNoBytes ==
    \A w \in Workers :
        /\ pc[w] = "finally" /\ Attach(w)
        /\ result[w].status # 200
        => /\ loc[w].local_path \in uploads =>
                  \E f \in project_files :
                      f.local_path = loc[w].local_path
           /\ loc[w].drive_id \in drive_files =>
                  \E f \in project_files : f.drive_id = loc[w].drive_id

====
